---- MODULE Spec2Model ----
(***************************************************************************)
(* A model of OhMI's directory-to-volume assembly pipeline (dicom.py,      *)
(* image.py, errors.py, utils.py) and of its tree iterators (tree.py).     *)
(*                                                                         *)
(* Strings whose characters matter (series UIDs, directory names, mapping  *)
(* keys) are sequences of one-character strings.  A decoded file is a      *)
(* record of the attributes pydicom would expose; `attrs` is the set of    *)
(* attributes for which hasattr(ds, a) is true.  A slice's pixel data is   *)
(* identified with the position of its file in the directory listing.      *)
(***************************************************************************)
EXTENDS Integers, Sequences, FiniteSets, TLC

VARIABLES
    fs,          \* the directory handed to the top-level call (never written)
    entry,       \* the function called: "read_directory" | "find_all_dicom_files"
    escalation,  \* the escalation argument of the top-level call
    dtype,       \* the dtype argument of the top-level call
    stack,       \* call stack, innermost frame last
    warnings,    \* warnings.warn calls so far, in order
    nothings,    \* calls of escalate's `nothing` action so far, in order
    result,      \* outcome of the top-level call
    earlier,     \* outcome of the top-level call made before this one, if any
    label,       \* tree: node -> label
    parent,      \* tree: node -> parent node, or None
    children,    \* tree: node -> sequence of child nodes
    nodes,       \* tree: number of nodes constructed so far
    iter,        \* tree: the running iterator, "none" | "BFS" | "DFS"
    iterRoot,    \* tree: the node the iterator was started at
    pending,     \* tree: the iterator's queue (BFS) or stack (DFS)
    yielded,     \* tree: the nodes yielded so far, in order
    answer,      \* tree: the last call of render, find_all or find_first
    image,       \* image: the Image constructed, or NoImage
    reply        \* image: the last call on the Image and its outcome

pipeVars == <<fs, entry, escalation, dtype, stack, warnings, nothings, result,
              earlier>>
treeVars == <<label, parent, children, nodes, iter, iterRoot, pending, yielded,
              answer>>
imageVars == <<image, reply>>
vars == <<fs, entry, escalation, dtype, stack, warnings, nothings, result,
          earlier,
          label, parent, children, nodes, iter, iterRoot, pending, yielded,
          answer, image, reply>>

(***************************************************************************)
(* Bounds of the model.                                                    *)
(***************************************************************************)
MaxFiles == 3
MaxTreeEntries == 4
MaxNodes == 4
MaxYield == 6
MaxLinks == 3
MaxCalls == 2
MaxIndex == 3

(***************************************************************************)
(* Generic helpers.                                                        *)
(***************************************************************************)
Range(s) == {s[i] : i \in 1..Len(s)}

Last(s) == s[Len(s)]

Front(s) == SubSeq(s, 1, Len(s) - 1)

RECURSIVE GCD(_, _)
GCD(a, b) == IF b = 0 THEN a ELSE GCD(b, a % b)

\* a / b for positive integers, as a reduced fraction <<numerator, denominator>>
Ratio(a, b) == <<a \div GCD(a, b), b \div GCD(a, b)>>

(***************************************************************************)
(* errors.py                                                               *)
(***************************************************************************)
NOTHING == "NOTHING"
WARNING == "WARNING"
ERROR == "ERROR"
Escalation == {NOTHING, WARNING, ERROR}

NoExc == [type |-> "none"]

\* Mutant of escalate: an error is reported as a warning.
escalate_warn_only(level, message, error_postfix, warn_postfix, error, warning) ==
    IF level = ERROR \/ level = WARNING
    THEN [exc |-> NoExc,
          warned |-> <<[category |-> warning, message |-> message,
                        postfix |-> warn_postfix]>>,
          nothing |-> <<>>]
    ELSE IF level = NOTHING
    THEN [exc |-> NoExc, warned |-> <<>>, nothing |-> <<message>>]
    ELSE [exc |-> [type |-> "ValueError",
                   message |-> [text |-> "Escalation level not recognised",
                                subject |-> level],
                   postfix |-> ""],
          warned |-> <<>>, nothing |-> <<>>]

\* escalate(): what one call does, as a record
\*   exc      the exception raised, or NoExc
\*   warned   the warnings emitted
\*   nothing  the calls of the `nothing` action
escalate(level, message, error_postfix, warn_postfix, error, warning) ==
    IF level = ERROR
    THEN [exc |-> [type |-> error, message |-> message, postfix |-> error_postfix],
          warned |-> <<>>, nothing |-> <<>>]
    ELSE IF level = WARNING
    THEN [exc |-> NoExc,
          warned |-> <<[category |-> warning, message |-> message,
                        postfix |-> warn_postfix]>>,
          nothing |-> <<>>]
    ELSE IF level = NOTHING
    THEN [exc |-> NoExc, warned |-> <<>>, nothing |-> <<message>>]
    ELSE [exc |-> [type |-> "ValueError",
                   message |-> [text |-> "Escalation level not recognised",
                                subject |-> level],
                   postfix |-> ""],
          warned |-> <<>>, nothing |-> <<>>]

(***************************************************************************)
(* image.py                                                                *)
(***************************************************************************)
AXIAL == "AXIAL"
SAGITTAL == "SAGITTAL"
CORONAL == "CORONAL"

\* Python's None where a tuple may stand
None == <<>>

\* Image._set_aspect_ratios: the value stored, or a ValueError
set_aspect_ratios(ndim, pixel_spacing) ==
    IF Len(pixel_spacing) # ndim
    THEN [exc |-> "ValueError", value |-> None]
    ELSE IF ndim = 1
    THEN [exc |-> "none", value |-> None]
    ELSE IF ndim = 2
    THEN [exc |-> "none", value |-> Ratio(pixel_spacing[2], pixel_spacing[1])]
    ELSE IF ndim = 3
    THEN [exc |-> "none",
          value |-> <<Ratio(pixel_spacing[2], pixel_spacing[1]),
                      Ratio(pixel_spacing[2], pixel_spacing[3]),
                      Ratio(pixel_spacing[3], pixel_spacing[1])>>]
    ELSE [exc |-> "ValueError", value |-> None]

\* np.zeros(shape): one entry per position of the last axis; 0 is a zero slice
Zeros(shape) == [k \in 1..shape[Len(shape)] |-> 0]

\* Image.__init__.  read_directory passes a 3-entry shape and a 3-entry
\* spacing, for which _set_aspect_ratios does not raise.
NewImage(name, shape, pixel_spacing, series_id, modality, dt) ==
    [name |-> name,
     shape |-> shape,
     data |-> Zeros(shape),
     dtype |-> dt,
     pixel_spacing |-> pixel_spacing,
     aspect_ratios |-> set_aspect_ratios(Len(shape), pixel_spacing).value,
     series_id |-> series_id,
     modality |-> modality]

\* Mutant of set_slice: the index is taken to count from 1.
set_slice_from_one(img, index, dshape, content) ==
    IF Len(dshape) # Len(img.shape) - 1 \/ dshape # Front(img.shape)
    THEN img
    ELSE IF index < 0 \/ index > Last(img.shape) - 1
    THEN img
    ELSE [img EXCEPT !.data[index] = content]

\* Image.set_slice(index, data): index is 0-based; `dshape` is data.shape and
\* `content` what the slice holds.  The returned error object is discarded by
\* the caller, so only the image after the call is modelled here.
set_slice(img, index, dshape, content) ==
    IF Len(dshape) # Len(img.shape) - 1 \/ dshape # Front(img.shape)
    THEN img
    ELSE IF index < 0 \/ index > Last(img.shape) - 1
    THEN img
    ELSE [img EXCEPT !.data[index + 1] = content]

\* no Image constructed yet, and no call on it
NoImage == [name |-> "none"]

NoReply == [op |-> "none"]

\* what a method hands back: a value, or an exception raised
Returns(kind, value) ==
    [status |-> "returned", exc |-> "none", value |-> [kind |-> kind, is |-> value]]

Raises(type) ==
    [status |-> "raised", exc |-> type, value |-> [kind |-> "none", is |-> None]]

ImagePlanes == {AXIAL, SAGITTAL, CORONAL}

\* image_plane=None, the default of aspect_ratios and get_slice
NoPlane == "None"

\* Mutant of aspect_ratios: the sagittal and coronal components are exchanged.
aspect_ratios_exchanged(img, image_plane) ==
    LET ndim == Len(img.shape)
        component(k) == IF img.aspect_ratios = None
                        THEN Raises("TypeError")
                        ELSE Returns("ratio", img.aspect_ratios[k])
    IN  IF ndim = 1 \/ ndim = 2
        THEN Returns("ratio", img.aspect_ratios)
        ELSE IF ndim = 3
        THEN IF image_plane = NoPlane THEN Returns("ratio", img.aspect_ratios)
             ELSE IF image_plane = AXIAL THEN component(1)
             ELSE IF image_plane = SAGITTAL THEN component(3)
             ELSE IF image_plane = CORONAL THEN component(2)
             ELSE Raises("ValueError")
        ELSE Raises("ValueError")

\* Image.aspect_ratios(image_plane), lines 123-142; subscripting a stored None
\* (no pixel spacing) is a TypeError
aspect_ratios(img, image_plane) ==
    LET ndim == Len(img.shape)
        component(k) == IF img.aspect_ratios = None
                        THEN Raises("TypeError")
                        ELSE Returns("ratio", img.aspect_ratios[k])
    IN  IF ndim = 1 \/ ndim = 2
        THEN Returns("ratio", img.aspect_ratios)
        ELSE IF ndim = 3
        THEN IF image_plane = NoPlane THEN Returns("ratio", img.aspect_ratios)
             ELSE IF image_plane = AXIAL THEN component(1)
             ELSE IF image_plane = SAGITTAL THEN component(2)
             ELSE IF image_plane = CORONAL THEN component(3)
             ELSE Raises("ValueError")
        ELSE Raises("ValueError")

\* Image.pixel_spacing setter, lines 82-90: the image after the assignment and
\* the exception raised, if any.  The tuple is stored before it is validated.
set_pixel_spacing(img, value) ==
    IF value = None
    THEN [img |-> [img EXCEPT !.pixel_spacing = None, !.aspect_ratios = None],
          exc |-> "none"]
    ELSE LET r == set_aspect_ratios(Len(img.shape), value)
         IN  [img |-> [img EXCEPT !.pixel_spacing = value,
                                  !.aspect_ratios = IF r.exc = "none"
                                                    THEN r.value ELSE @],
              exc |-> r.exc]

\* Image.set_slice, lines 163-168: what the call returns
set_slice_returns(img, index, dshape) ==
    IF Len(dshape) # Len(img.shape) - 1 \/ dshape # Front(img.shape)
    THEN Returns("error", "RuntimeError")
    ELSE IF index < 0 \/ index > Last(img.shape) - 1
    THEN Returns("error", "IndexError")
    ELSE Returns("none", None)

\* The samples of an image.  A slice is named by a number c and holds c * (10x + y)
\* at (x, y), so that the zero slice of np.zeros is slice 0; positions count
\* from 1 here.
Voxel(img, x, y, z) == img.data[z] * (10 * x + y)

\* data[:, :, k], data[:, k, :] and data[k, :, :] of a 3D image, k counted from 0
CutLast(img, k) ==
    [x \in 1..img.shape[1] |-> [y \in 1..img.shape[2] |-> Voxel(img, x, y, k + 1)]]

CutMiddle(img, k) ==
    [x \in 1..img.shape[1] |-> [z \in 1..img.shape[3] |-> Voxel(img, x, k + 1, z)]]

CutFirst(img, k) ==
    [y \in 1..img.shape[2] |-> [z \in 1..img.shape[3] |-> Voxel(img, k + 1, y, z)]]

\* Mutant of get_slice: sagittal and coronal cut each other's axis.
get_slice_swapped(img, index, image_plane) ==
    LET ndim == Len(img.shape)
        num_slices == IF ndim = 2 THEN 1
                      ELSE IF image_plane = AXIAL THEN img.shape[3]
                      ELSE IF image_plane = SAGITTAL THEN img.shape[1]
                      ELSE img.shape[2]
    IN  IF ndim # 2 /\ ndim # 3
        THEN Raises("ValueError")
        ELSE IF ndim = 3 /\ image_plane \notin ImagePlanes
        THEN Raises("ValueError")
        ELSE IF index < 0 \/ index >= num_slices
        THEN Returns("error", "IndexError")
        ELSE IF ndim = 2 THEN Returns("array", img.data)
        ELSE IF image_plane = AXIAL THEN Returns("array", CutLast(img, index))
        ELSE IF image_plane = SAGITTAL THEN Returns("array", CutFirst(img, index))
        ELSE Returns("array", CutMiddle(img, index))

\* Image.get_slice(index, image_plane), lines 175-214
get_slice(img, index, image_plane) ==
    LET ndim == Len(img.shape)
        num_slices == IF ndim = 2 THEN 1
                      ELSE IF image_plane = AXIAL THEN img.shape[3]
                      ELSE IF image_plane = SAGITTAL THEN img.shape[2]
                      ELSE img.shape[1]
    IN  IF ndim # 2 /\ ndim # 3
        THEN Raises("ValueError")
        ELSE IF ndim = 3 /\ image_plane \notin ImagePlanes
        THEN Raises("ValueError")
        ELSE IF index < 0 \/ index >= num_slices
        THEN Returns("error", "IndexError")
        ELSE IF ndim = 2 THEN Returns("array", img.data)
        ELSE IF image_plane = AXIAL THEN Returns("array", CutLast(img, index))
        ELSE IF image_plane = SAGITTAL THEN Returns("array", CutMiddle(img, index))
        ELSE Returns("array", CutFirst(img, index))

(***************************************************************************)
(* dicom.py: fix_siuid, read_dicom_slice                                   *)
(***************************************************************************)
DefaultDType == "float32"
DTypes == {"float32", "float64"}

Required == {"SeriesInstanceUID", "Columns", "Rows", "PixelSpacing",
             "SliceThickness", "Modality"}
AllAttrs == Required \cup {"SliceLocation"}

\* Mutant of fix_siuid: only the first "/" is replaced.
fix_siuid_first_only(SIUID) ==
    [i \in 1..Len(SIUID) |->
        IF SIUID[i] = "/" /\ \A j \in 1..(i - 1) : SIUID[j] # "/"
        THEN "_" ELSE SIUID[i]]

fix_siuid(SIUID) ==
    [i \in 1..Len(SIUID) |-> IF SIUID[i] = "/" THEN "_" ELSE SIUID[i]]

InvalidDicom(text, idx) ==
    [ok |-> FALSE, message |-> [about |-> "file", text |-> text, subject |-> idx]]

\* Mutant of read_dicom_slice: the six hasattr checks are left out.
read_dicom_slice_unchecked(file, idx) ==
    IF ~file.decodes
    THEN InvalidDicom("Invalid Dicom file (can't load)", idx)
    ELSE [ok |-> TRUE,
          SIUID |-> fix_siuid(file.SeriesInstanceUID),
          ds |-> idx,
          columns |-> file.Columns,
          rows |-> file.Rows,
          pixel_spacing |-> file.PixelSpacing,
          slice_thickness |-> file.SliceThickness,
          modality |-> file.Modality]

\* read_dicom_slice(file): the tuple returned, or the message of the
\* pydicom InvalidDicomError raised.  `idx` is the file's place in the listing.
read_dicom_slice(file, idx) ==
    IF ~file.decodes
    THEN InvalidDicom("Invalid Dicom file (can't load)", idx)
    ELSE IF "SeriesInstanceUID" \notin file.attrs
    THEN InvalidDicom("Invalid Dicom file found (no SeriesInstanceUID)", idx)
    ELSE IF "Columns" \notin file.attrs
    THEN InvalidDicom("Invalid Dicom file found (no Columns)", idx)
    ELSE IF "Rows" \notin file.attrs
    THEN InvalidDicom("Invalid Dicom file found (no Rows)", idx)
    ELSE IF "PixelSpacing" \notin file.attrs
    THEN InvalidDicom("Invalid Dicom file found (no PixelSpacing)", idx)
    ELSE IF "SliceThickness" \notin file.attrs
    THEN InvalidDicom("Invalid Dicom file found (no SliceThickness)", idx)
    ELSE IF "Modality" \notin file.attrs
    THEN InvalidDicom("Invalid Dicom file found (no Modality)", idx)
    ELSE [ok |-> TRUE,
          SIUID |-> fix_siuid(file.SeriesInstanceUID),
          ds |-> idx,
          columns |-> file.Columns,
          rows |-> file.Rows,
          pixel_spacing |-> file.PixelSpacing,
          slice_thickness |-> file.SliceThickness,
          modality |-> file.Modality]

(***************************************************************************)
(* Python dict: a sequence of [key, val] in insertion order                *)
(***************************************************************************)
Keys(d) == {d[i].key : i \in 1..Len(d)}

KeyAt(d, k) == CHOOSE i \in 1..Len(d) : d[i].key = k

Get(d, k) == d[KeyAt(d, k)].val

\* d[k] = v
DictSet(d, k, v) ==
    IF k \in Keys(d)
    THEN [d EXCEPT ![KeyAt(d, k)].val = v]
    ELSE Append(d, [key |-> k, val |-> v])

\* del d[k]
DictDel(d, k) ==
    LET at == KeyAt(d, k)
    IN  SubSeq(d, 1, at - 1) \o SubSeq(d, at + 1, Len(d))

(***************************************************************************)
(* dicom.py: read_directory                                                *)
(***************************************************************************)
\* err_msg(where, message): escalate with read_directory's fixed arguments
err_msg(level, message) ==
    escalate(level, message, "", " Ignoring.", "InvalidDicomError", "UserWarning")

\* lines 252-267: add one successfully read slice to `images`
Accumulate(images, r) ==
    IF r.SIUID \notin Keys(images)
    THEN Append(images,
                [key |-> r.SIUID,
                 val |-> [Slices |-> <<r.ds>>,
                          Columns |-> <<r.columns>>,
                          Rows |-> <<r.rows>>,
                          PixelSpacing |-> <<r.pixel_spacing>>,
                          SliceThickness |-> <<r.slice_thickness>>,
                          Modality |-> <<r.modality>>]])
    ELSE LET v == Get(images, r.SIUID)
         IN  DictSet(images, r.SIUID,
                     [Slices |-> Append(v.Slices, r.ds),
                      Columns |-> Append(v.Columns, r.columns),
                      Rows |-> Append(v.Rows, r.rows),
                      PixelSpacing |-> Append(v.PixelSpacing, r.pixel_spacing),
                      SliceThickness |-> Append(v.SliceThickness, r.slice_thickness),
                      Modality |-> Append(v.Modality, r.modality)])

\* Mutant of InsertByLocation: x goes in front of the elements of equal key,
\* which is an unstable sort.
RECURSIVE InsertBeforeEqual(_, _, _)
InsertBeforeEqual(sorted, x, files) ==
    IF sorted = <<>>
    THEN <<x>>
    ELSE IF files[Last(sorted)].SliceLocation < files[x].SliceLocation
    THEN Append(sorted, x)
    ELSE Append(InsertBeforeEqual(Front(sorted), x, files), Last(sorted))

\* sorted(slices, key=lambda s: s.SliceLocation): stable, ascending.
\* Insert x behind every element whose key is not larger.
RECURSIVE InsertByLocation(_, _, _)
InsertByLocation(sorted, x, files) ==
    IF sorted = <<>>
    THEN <<x>>
    ELSE IF files[Last(sorted)].SliceLocation <= files[x].SliceLocation
    THEN Append(sorted, x)
    ELSE Append(InsertByLocation(Front(sorted), x, files), Last(sorted))

RECURSIVE SortedByLocation(_, _)
SortedByLocation(slices, files) ==
    IF slices = <<>>
    THEN <<>>
    ELSE InsertByLocation(SortedByLocation(Front(slices), files), Last(slices), files)

CheckedKeys == <<[key |-> "Columns", what |-> "columns"],
                 [key |-> "Rows", what |-> "rows"],
                 [key |-> "PixelSpacing", what |-> "spacings"],
                 [key |-> "SliceThickness", what |-> "thicknesses"],
                 [key |-> "Modality", what |-> "modalities"]>>

KeyError(k) ==
    [type |-> "KeyError", message |-> [text |-> "KeyError", subject |-> k],
     postfix |-> ""]

\* lines 286-299: the loop over the five checked keys, from key number n on.
\* st = [images, exc, warned, nothing]; a raised exception ends the loop.
RECURSIVE Validate(_, _, _, _)
Validate(st, SIUID, level, n) ==
    IF n > Len(CheckedKeys) \/ st.exc # NoExc
    THEN st
    ELSE IF SIUID \notin Keys(st.images)
    THEN [st EXCEPT !.exc = KeyError(SIUID)]
    ELSE IF Cardinality(Range(Get(st.images, SIUID)[CheckedKeys[n].key])) > 1
    THEN LET e == err_msg(level,
                          [about |-> "series",
                           text |-> "The slice ... are inconsistent",
                           what |-> CheckedKeys[n].what,
                           subject |-> SIUID])
         IN  Validate([images |-> DictDel(st.images, SIUID),
                       exc |-> e.exc,
                       warned |-> st.warned \o e.warned,
                       nothing |-> st.nothing \o e.nothing],
                      SIUID, level, n + 1)
    ELSE Validate(st, SIUID, level, n + 1)

\* lines 320-328: fill the image from slice number i (1-based) on
RECURSIVE Fill(_, _, _, _)
Fill(img, slices, files, i) ==
    IF i > Len(slices)
    THEN [exc |-> NoExc, img |-> img]
    ELSE IF files[slices[i]].pixshape # Front(img.shape)
    THEN [exc |-> [type |-> "InvalidDicomError",
                   message |-> [text |-> "The pixel array shapes are inconsistent.",
                                subject |-> slices[i]],
                   postfix |-> ""],
          img |-> img]
    ELSE Fill(set_slice(img, i - 1, files[slices[i]].pixshape, slices[i]),
              slices, files, i + 1)

\* lines 279-330: one iteration of `for SIUID in images`
AssembleOne(images, SIUID, files, dirname, dt, level) ==
    LET slices == Get(images, SIUID).Slices
        quiet(e, im) == [images |-> im, exc |-> e, warned |-> <<>>, nothing |-> <<>>]
    IN  IF \E s \in Range(slices) : "SliceLocation" \notin files[s].attrs
        THEN quiet([type |-> "AttributeError",
                    message |-> [text |-> "SliceLocation", subject |-> SIUID],
                    postfix |-> ""], images)
        ELSE
        LET sorted == DictSet(images, SIUID,
                              [Get(images, SIUID) EXCEPT
                                   !.Slices = SortedByLocation(slices, files)])
            v == Validate(quiet(NoExc, sorted), SIUID, level, 1)
        IN  IF v.exc # NoExc
            THEN v
            ELSE IF SIUID \notin Keys(v.images)
            THEN [v EXCEPT !.exc = KeyError(SIUID)]
            ELSE
            LET acc == Get(v.images, SIUID)
                spacing == acc.PixelSpacing[1] \o <<acc.SliceThickness[1]>>
                shape == <<acc.Columns[1], acc.Rows[1], Len(acc.Slices)>>
                img == NewImage(dirname, shape, spacing, SIUID, acc.Modality[1], dt)
                f == Fill(img, acc.Slices, files, 1)
            IN  IF f.exc # NoExc
                THEN [v EXCEPT !.exc = f.exc]
                ELSE [v EXCEPT !.images = DictSet(v.images, SIUID, f.img)]

(***************************************************************************)
(* dicom.py: find_all_dicom_files                                          *)
(***************************************************************************)
\* Mutant of PathStr: the subdirectory's name is left out of the key.
PathStrUnprefixed(name, k) == k

\* str(pathlib.Path(name, k)): a later absolute segment replaces what is
\* before it, an empty one adds nothing, otherwise the parts are joined by "/"
PathStr(name, k) ==
    IF k = <<>>
    THEN name
    ELSE IF Head(k) = "/"
    THEN k
    ELSE name \o <<"/">> \o k

\* lines 377-381: merge a subdirectory's mapping, from its entry number n on
RECURSIVE MergeSub(_, _, _, _)
MergeSub(dicoms, name, sub, n) ==
    IF n > Len(sub)
    THEN dicoms
    ELSE MergeSub(DictSet(dicoms, PathStr(name, sub[n].key), sub[n].val),
                  name, sub, n + 1)

(***************************************************************************)
(* The calls as a state machine.  A frame of read_directory is             *)
(*   [fn, path, dtype, phase, i, images, j]                                *)
(* with i the next listing entry of the first loop and j the next series   *)
(* of the second; a frame of find_all_dicom_files is                       *)
(*   [fn, path, dtype, phase, idx, dicoms]                                 *)
(* with idx the next listing entry of the subdirectory loop.  `path` names *)
(* the directory of the call: the entry numbers leading to it from fs.     *)
(***************************************************************************)
\* Mutant of ReadFrame: the listing is a generator kept from the call before,
\* which that call has used up.
ReadFrameListingUsedUp(path, dt) ==
    [fn |-> "read_directory", path |-> path, dtype |-> dt, phase |-> "read",
     i |-> IF earlier.status = "none" THEN 1 ELSE MaxTreeEntries + 1,
     images |-> <<>>, j |-> 1]

ReadFrame(path, dt) ==
    [fn |-> "read_directory", path |-> path, dtype |-> dt, phase |-> "read",
     i |-> 1, images |-> <<>>, j |-> 1]

FindFrame(path, dt) ==
    [fn |-> "find_all_dicom_files", path |-> path, dtype |-> dt, phase |-> "start",
     idx |-> 1, dicoms |-> <<>>]

Top == Last(stack)

RECURSIVE DirAt(_, _)
DirAt(dir, path) ==
    IF path = <<>> THEN dir ELSE DirAt(dir.entries[Head(path)], Tail(path))

TopDir == DirAt(fs, Top.path)

InRead(phase) ==
    /\ stack # <<>>
    /\ Top.fn = "read_directory"
    /\ Top.phase = phase

InFind(phase) ==
    /\ stack # <<>>
    /\ Top.fn = "find_all_dicom_files"
    /\ Top.phase = phase

SetTop(f) == [stack EXCEPT ![Len(stack)] = f]

\* an exception no frame handles: every call on the stack is abandoned
Raise(exc) ==
    /\ stack' = <<>>
    /\ result' = [status |-> "raised", exc |-> exc, value |-> <<>>]

\* the caller's frame once the callee has returned `value` to it
Resume(caller, value) ==
    IF caller.phase = "reading"
    THEN [caller EXCEPT !.dicoms = value, !.phase = "loop", !.idx = 1]
    ELSE [caller EXCEPT
              !.dicoms = MergeSub(caller.dicoms,
                                  DirAt(fs, caller.path).entries[caller.idx].name, value, 1),
              !.phase = "loop",
              !.idx = caller.idx + 1]

\* `return value` of the innermost call
Return(value) ==
    IF Len(stack) = 1
    THEN /\ stack' = <<>>
         /\ result' = [status |-> "returned", exc |-> NoExc, value |-> value]
    ELSE /\ stack' = Append(SubSeq(stack, 1, Len(stack) - 2),
                            Resume(stack[Len(stack) - 1], value))
         /\ UNCHANGED result

\* read_directory, line 233: nothing listed
ReturnEmpty ==
    /\ InRead("read")
    /\ Len(TopDir.entries) = 0
    /\ Return(Top.images)
    /\ UNCHANGED <<fs, entry, escalation, dtype, warnings, nothings>>
    /\ UNCHANGED earlier
    /\ UNCHANGED treeVars
    /\ UNCHANGED imageVars

\* read_directory, lines 241-242: an entry that is no regular file
SkipNonFile ==
    /\ InRead("read")
    /\ Top.i <= Len(TopDir.entries)
    /\ TopDir.entries[Top.i].isdir
    /\ stack' = SetTop([Top EXCEPT !.i = Top.i + 1])
    /\ UNCHANGED <<fs, entry, escalation, dtype, warnings, nothings, result>>
    /\ UNCHANGED earlier
    /\ UNCHANGED treeVars
    /\ UNCHANGED imageVars

\* read_directory, lines 244-267 and 271: a file that reads
ReadSlice ==
    /\ InRead("read")
    /\ Top.i <= Len(TopDir.entries)
    /\ ~TopDir.entries[Top.i].isdir
    /\ LET r == read_dicom_slice(TopDir.entries[Top.i], Top.i)
       IN  /\ r.ok
           /\ stack' = SetTop([Top EXCEPT !.images = Accumulate(Top.images, r),
                                          !.i = Top.i + 1])
    /\ UNCHANGED <<fs, entry, escalation, dtype, warnings, nothings, result>>
    /\ UNCHANGED earlier
    /\ UNCHANGED treeVars
    /\ UNCHANGED imageVars

\* read_directory, lines 268-270: a file read_dicom_slice rejects
ReadFault ==
    /\ InRead("read")
    /\ Top.i <= Len(TopDir.entries)
    /\ ~TopDir.entries[Top.i].isdir
    /\ LET r == read_dicom_slice(TopDir.entries[Top.i], Top.i)
           e == err_msg(escalation, r.message)
       IN  /\ ~r.ok
           /\ warnings' = warnings \o e.warned
           /\ nothings' = nothings \o e.nothing
           /\ IF e.exc # NoExc
              THEN Raise(e.exc)
              ELSE /\ stack' = SetTop([Top EXCEPT !.i = Top.i + 1])
                   /\ UNCHANGED result
    /\ UNCHANGED <<fs, entry, escalation, dtype>>
    /\ UNCHANGED earlier
    /\ UNCHANGED treeVars
    /\ UNCHANGED imageVars

\* read_directory, lines 273-279: the first loop is over
BeginAssemble ==
    /\ InRead("read")
    /\ Len(TopDir.entries) > 0
    /\ Top.i > Len(TopDir.entries)
    /\ stack' = SetTop([Top EXCEPT !.phase = "assemble", !.j = 1])
    /\ UNCHANGED <<fs, entry, escalation, dtype, warnings, nothings, result>>
    /\ UNCHANGED earlier
    /\ UNCHANGED treeVars
    /\ UNCHANGED imageVars

\* read_directory, lines 279-330: one series
AssembleSeries ==
    /\ InRead("assemble")
    /\ Top.j <= Len(Top.images)
    /\ LET a == AssembleOne(Top.images, Top.images[Top.j].key, TopDir.entries,
                            TopDir.name, Top.dtype, escalation)
       IN  /\ warnings' = warnings \o a.warned
           /\ nothings' = nothings \o a.nothing
           /\ IF a.exc # NoExc
              THEN Raise(a.exc)
              ELSE /\ stack' = SetTop([Top EXCEPT !.images = a.images,
                                                  !.j = Top.j + 1])
                   /\ UNCHANGED result
    /\ UNCHANGED <<fs, entry, escalation, dtype>>
    /\ UNCHANGED earlier
    /\ UNCHANGED treeVars
    /\ UNCHANGED imageVars

\* read_directory, line 332
ReturnImages ==
    /\ InRead("assemble")
    /\ Top.j > Len(Top.images)
    /\ Return(Top.images)
    /\ UNCHANGED <<fs, entry, escalation, dtype, warnings, nothings>>
    /\ UNCHANGED earlier
    /\ UNCHANGED treeVars
    /\ UNCHANGED imageVars

\* find_all_dicom_files, lines 361-365: read this directory
FindCallRead ==
    /\ InFind("start")
    /\ stack' = Append(SetTop([Top EXCEPT !.phase = "reading"]),
                       ReadFrame(Top.path, Top.dtype))
    /\ UNCHANGED <<fs, entry, escalation, dtype, warnings, nothings, result>>
    /\ UNCHANGED earlier
    /\ UNCHANGED treeVars
    /\ UNCHANGED imageVars

\* find_all_dicom_files, lines 369-370: an entry that is no directory
FindSkipFile ==
    /\ InFind("loop")
    /\ Top.idx <= Len(TopDir.entries)
    /\ ~TopDir.entries[Top.idx].isdir
    /\ stack' = SetTop([Top EXCEPT !.idx = Top.idx + 1])
    /\ UNCHANGED <<fs, entry, escalation, dtype, warnings, nothings, result>>
    /\ UNCHANGED earlier
    /\ UNCHANGED treeVars
    /\ UNCHANGED imageVars

\* find_all_dicom_files, lines 373-376: recurse into a subdirectory; the
\* call passes escalation and verbosity, and leaves dtype at its default
FindRecurse ==
    /\ InFind("loop")
    /\ Top.idx <= Len(TopDir.entries)
    /\ TopDir.entries[Top.idx].isdir
    /\ stack' = Append(SetTop([Top EXCEPT !.phase = "waiting"]),
                       FindFrame(Append(Top.path, Top.idx), DefaultDType))
    /\ UNCHANGED <<fs, entry, escalation, dtype, warnings, nothings, result>>
    /\ UNCHANGED earlier
    /\ UNCHANGED treeVars
    /\ UNCHANGED imageVars

\* find_all_dicom_files, line 383
FindReturn ==
    /\ InFind("loop")
    /\ Top.idx > Len(TopDir.entries)
    /\ Return(Top.dicoms)
    /\ UNCHANGED <<fs, entry, escalation, dtype, warnings, nothings>>
    /\ UNCHANGED earlier
    /\ UNCHANGED treeVars
    /\ UNCHANGED imageVars

(***************************************************************************)
(* tree.py: Node, BFSIterator, DFSIterator.  Nodes are numbered in the     *)
(* order of their construction; NoNode is the parent None.                 *)
(***************************************************************************)
NoNode == 0

\* str(label), line 80.  A text is a sequence of pieces, each piece a string
\* taken whole: a label, a glyph or a line separator.
Labels == {"a", "b"}

\* no render, find_all or find_first called yet
NoAnswer == [op |-> "none"]

Nodes == 1..nodes

Reverse(s) == [i \in 1..Len(s) |-> s[Len(s) + 1 - i]]

\* the child links there are, over all nodes
Links == UNION {{<<p, i>> : i \in 1..Len(children[p])} : p \in Nodes}

\* Node.parent setter, lines 98-104, on the children lists
Adopt(kids, n, value) ==
    IF value # NoNode
    THEN [kids EXCEPT ![value] = Append(kids[value], n)]
    ELSE kids

\* Node.__init__, lines 80-88: the parent is set before self.children
NewNode(lbl, value) ==
    /\ iter = "none"
    /\ nodes < MaxNodes
    /\ nodes' = nodes + 1
    /\ label' = Append(label, lbl)
    /\ parent' = Append(parent, value)
    /\ children' = Append(Adopt(children, nodes + 1, value), <<>>)
    /\ UNCHANGED <<iter, iterRoot, pending, yielded, answer>>
    /\ UNCHANGED pipeVars
    /\ UNCHANGED imageVars

\* node.parent = value, lines 95-104
SetParent(n, value) ==
    /\ iter = "none"
    /\ parent' = [parent EXCEPT ![n] = value]
    /\ children' = Adopt(children, n, value)
    /\ UNCHANGED <<label, nodes, iter, iterRoot, pending, yielded, answer>>
    /\ UNCHANGED pipeVars
    /\ UNCHANGED imageVars

\* iter(BFSIterator(node)) or iter(DFSIterator(node)), lines 171 and 189
StartIterator(kind, node) ==
    /\ iter = "none"
    /\ iter' = kind
    /\ iterRoot' = node
    /\ pending' = <<node>>
    /\ yielded' = <<>>
    /\ UNCHANGED <<label, parent, children, nodes, answer>>
    /\ UNCHANGED pipeVars
    /\ UNCHANGED imageVars

\* Mutant of BFSExpand: the children go to the front of the queue.
BFSExpandChildrenFirst(queue) == children[Head(queue)] \o Tail(queue)

\* Mutant of BFSExpand: the queue's first element is read and not removed.
BFSExpandNoPop(queue) == queue \o children[Head(queue)]

\* BFSIterator.__iter__, lines 173-178: the queue after one round of the loop
BFSExpand(queue) == Tail(queue) \o children[Head(queue)]

\* Mutant of DFSExpand: the children are pushed in insertion order.
DFSExpandUnreversed(stk) == Front(stk) \o children[Last(stk)]

\* DFSIterator.__iter__, lines 191-198: the stack after one round of the loop
DFSExpand(stk) == Front(stk) \o Reverse(children[Last(stk)])

\* one round of BFSIterator's loop: pop the first node, yield it, expand it
BFSNext ==
    /\ iter = "BFS"
    /\ Len(pending) > 0
    /\ Len(yielded) < MaxYield
    /\ yielded' = Append(yielded, Head(pending))
    /\ pending' = BFSExpand(pending)
    /\ UNCHANGED <<label, parent, children, nodes, iter, iterRoot, answer>>
    /\ UNCHANGED pipeVars
    /\ UNCHANGED imageVars

\* one round of DFSIterator's loop: pop the last node, yield it, expand it
DFSNext ==
    /\ iter = "DFS"
    /\ Len(pending) > 0
    /\ Len(yielded) < MaxYield
    /\ yielded' = Append(yielded, Last(pending))
    /\ pending' = DFSExpand(pending)
    /\ UNCHANGED <<label, parent, children, nodes, iter, iterRoot, answer>>
    /\ UNCHANGED pipeVars
    /\ UNCHANGED imageVars

\* TreePrintStyleASCII and TreePrintStyleUnicode, lines 47-68; the box-drawing
\* characters of the latter are written by their code points
TreePrintStyleASCII ==
    [vertical |-> "|   ", branch |-> "|-- ", end |-> "+-- ", blank |-> "    "]

TreePrintStyleUnicode ==
    [vertical |-> "u2502   ", branch |-> "u251cu2500u2500 ",
     end |-> "u2514u2500u2500 ", blank |-> "    "]

Styles == {TreePrintStyleASCII, TreePrintStyleUnicode}

\* os.linesep, the default of render's linesep
LineSep == "\n"

\* Mutant of _print: the last child is drawn like the others.
RECURSIVE _print_all_branches(_, _, _, _)
_print_all_branches(node, i, prefix, style) ==
    IF i > Len(children[node])
    THEN <<>>
    ELSE LET child == children[node][i]
         IN  <<prefix \o <<style.branch, label[child]>>>>
             \o _print_all_branches(child, 1, prefix \o <<style.vertical>>, style)
             \o _print_all_branches(node, i + 1, prefix, style)

\* render's _print(node, prefix), lines 113-121, from child i of node on: the
\* strings it appends to _strs
RECURSIVE _print(_, _, _, _)
_print(node, i, prefix, style) ==
    IF i > Len(children[node])
    THEN <<>>
    ELSE LET child == children[node][i]
         IN  IF i < Len(children[node])
             THEN <<prefix \o <<style.branch, label[child]>>>>
                  \o _print(child, 1, prefix \o <<style.vertical>>, style)
                  \o _print(node, i + 1, prefix, style)
             ELSE <<prefix \o <<style.end, label[child]>>>>
                  \o _print(child, 1, prefix \o <<style.blank>>, style)

\* linesep.join(strs), line 127
RECURSIVE join(_, _)
join(strs, linesep) ==
    IF strs = <<>> THEN <<>>
    ELSE IF Len(strs) = 1 THEN Head(strs)
    ELSE Head(strs) \o <<linesep>> \o join(Tail(strs), linesep)

\* Node.render(style, linesep), lines 106-127
render(node, style, linesep) ==
    join(<<<<label[node]>>>> \o _print(node, 1, <<>>, style), linesep)

\* node.render(style)
Render(node, style) ==
    /\ iter = "none"
    /\ answer' = [op |-> "render", node |-> node, style |-> style,
                  value |-> render(node, style, LineSep)]
    /\ UNCHANGED <<label, parent, children, nodes, iter, iterRoot, pending,
                   yielded>>
    /\ UNCHANGED pipeVars
    /\ UNCHANGED imageVars

\* the node an iterator's loop pops, and what it leaves pending
Popped(kind, pend) == IF kind = "BFS" THEN Head(pend) ELSE Last(pend)

Expanded(kind, pend) == IF kind = "BFS" THEN BFSExpand(pend) ELSE DFSExpand(pend)

\* find_all's loop, lines 207-212, from the iterator state `pend` on; a filter
\* is the set of nodes it accepts
RECURSIVE find_all_from(_, _, _, _)
find_all_from(kind, pend, filter_, found) ==
    IF pend = <<>>
    THEN found
    ELSE LET node_ == Popped(kind, pend)
         IN  find_all_from(kind, Expanded(kind, pend), filter_,
                           IF node_ \in filter_ THEN Append(found, node_) ELSE found)

\* find_all(node, filter_, iterator=kind), lines 201-212
find_all(node, filter_, kind) == find_all_from(kind, <<node>>, filter_, <<>>)

NotFound == [status |-> "raised", exc |-> "NotFoundError", value |-> NoNode]

\* Mutant of find_first_from: the loop runs on after a match.
RECURSIVE find_last_from(_, _, _)
find_last_from(kind, pend, filter_) ==
    IF pend = <<>>
    THEN NotFound
    ELSE LET node_ == Popped(kind, pend)
             later == find_last_from(kind, Expanded(kind, pend), filter_)
         IN  IF node_ \in filter_ /\ later = NotFound
             THEN [status |-> "returned", exc |-> "none", value |-> node_]
             ELSE later

\* find_first's loop, lines 221-225, from the iterator state `pend` on
RECURSIVE find_first_from(_, _, _)
find_first_from(kind, pend, filter_) ==
    IF pend = <<>>
    THEN NotFound
    ELSE LET node_ == Popped(kind, pend)
         IN  IF node_ \in filter_
             THEN [status |-> "returned", exc |-> "none", value |-> node_]
             ELSE find_first_from(kind, Expanded(kind, pend), filter_)

\* find_first(node, filter_, iterator=kind), lines 215-225
find_first(node, filter_, kind) == find_first_from(kind, <<node>>, filter_)

\* a call of find_all
FindAll(node, filter_, kind) ==
    /\ iter = "none"
    /\ answer' = [op |-> "find_all", node |-> node, filter |-> filter_,
                  iterator |-> kind, status |-> "returned", exc |-> "none",
                  value |-> find_all(node, filter_, kind)]
    /\ UNCHANGED <<label, parent, children, nodes, iter, iterRoot, pending,
                   yielded>>
    /\ UNCHANGED pipeVars
    /\ UNCHANGED imageVars

\* a call of find_first
FindFirst(node, filter_, kind) ==
    /\ iter = "none"
    /\ LET r == find_first(node, filter_, kind)
       IN  answer' = [op |-> "find_first", node |-> node, filter |-> filter_,
                      iterator |-> kind, status |-> r.status, exc |-> r.exc,
                      value |-> r.value]
    /\ UNCHANGED <<label, parent, children, nodes, iter, iterRoot, pending,
                   yielded>>
    /\ UNCHANGED pipeVars
    /\ UNCHANGED imageVars

(***************************************************************************)
(* The directories the calls are run on.                                   *)
(***************************************************************************)
UidSlash == <<"1", "/", "2", "/", "3">>
UidUnder == <<"1", "_", "2", "_", "3">>
UidOther == <<"3">>
UIDs == {UidSlash, UidUnder, UidOther}
Locations == {10, 20, 30}
RootName == <<"R">>
SubNames == {<<"A">>, <<"B">>}

\* a single-frame file as pydicom decodes it: the pixel array is Rows x Columns
BaseFile ==
    [isdir |-> FALSE, decodes |-> TRUE, attrs |-> AllAttrs,
     SeriesInstanceUID |-> UidSlash, Columns |-> 2, Rows |-> 2,
     PixelSpacing |-> <<1, 2>>, SliceThickness |-> 4, Modality |-> "CT",
     SliceLocation |-> 10, pixshape |-> <<2, 2>>]

\* files read_dicom_slice rejects
BadFiles ==
    {[BaseFile EXCEPT !.decodes = FALSE]}
    \cup {[BaseFile EXCEPT !.attrs = AllAttrs \ {a}] : a \in Required}

\* files of several series, and of one series at several slice locations
PlainFiles ==
    {[BaseFile EXCEPT !.SeriesInstanceUID = u] : u \in UIDs}
    \cup {[BaseFile EXCEPT !.SliceLocation = l] : l \in Locations}

\* files with all required fields and no SliceLocation
NoLocationFiles ==
    {[BaseFile EXCEPT !.attrs = AllAttrs \ {"SliceLocation"}]}

\* files that differ from BaseFile in one of the five checked fields
DeviantFiles ==
    {[BaseFile EXCEPT !.Columns = 1, !.pixshape = <<2, 1>>],
     [BaseFile EXCEPT !.Rows = 1, !.pixshape = <<1, 2>>],
     [BaseFile EXCEPT !.PixelSpacing = <<2, 2>>],
     [BaseFile EXCEPT !.SliceThickness = 2],
     [BaseFile EXCEPT !.Modality = "MR"]}

\* files whose pixel array is not Rows x Columns (three samples per pixel)
ColourFiles ==
    {[BaseFile EXCEPT !.pixshape = <<2, 2, 3>>],
     [BaseFile EXCEPT !.pixshape = <<2, 2, 3>>, !.SeriesInstanceUID = UidOther]}

EmptyDir(name) == [isdir |-> TRUE, name |-> name, entries |-> <<>>]

Dir(name, entries) == [isdir |-> TRUE, name |-> name, entries |-> entries]

\* what a listing of the directory given to read_directory may hold
FlatEntries ==
    BadFiles \cup PlainFiles \cup NoLocationFiles \cup DeviantFiles
    \cup ColourFiles \cup {EmptyDir(<<"A">>)}

FlatListings == UNION {[1..n -> FlatEntries] : n \in 0..MaxFiles}

\* the files of the directory trees given to find_all_dicom_files
TreeFiles ==
    {BaseFile,
     [BaseFile EXCEPT !.SeriesInstanceUID = UidOther],
     [BaseFile EXCEPT !.decodes = FALSE],
     [BaseFile EXCEPT !.attrs = AllAttrs \ {"SliceLocation"}]}

\* the names of the subdirectories listed in `entries`
SubdirNames(entries) ==
    {entries[i].name : i \in {k \in 1..Len(entries) : entries[k].isdir}}

\* listings of at most n entries in all, subdirectories' entries included,
\* with regular files from `files`; a directory never lists two
\* subdirectories of one name
RECURSIVE ListingsOf(_, _)
ListingsOf(files, n) ==
    IF n = 0
    THEN {<<>>}
    ELSE {<<>>}
         \cup {<<f>> \o rest : f \in files, rest \in ListingsOf(files, n - 1)}
         \cup UNION {
                {l \in {<<Dir(nm, sub)>> \o rest :
                            nm \in SubNames,
                            sub \in ListingsOf(files, k),
                            rest \in ListingsOf(files, n - 1 - k)} :
                    Head(l).name \notin SubdirNames(Tail(l))} :
                k \in 0..(n - 1)}

TreeListings(n) == ListingsOf(TreeFiles, n)

\* a SeriesInstanceUID element of length zero, which pydicom decodes as the
\* empty string, and a UID that reads like the name of a subdirectory
UidEmpty == <<>>
UidLikeName == <<"A">>

\* the files of the directory trees whose series keys meet directory names
NamesakeFiles ==
    {[BaseFile EXCEPT !.SeriesInstanceUID = UidEmpty],
     [BaseFile EXCEPT !.SeriesInstanceUID = UidLikeName],
     [BaseFile EXCEPT !.decodes = FALSE]}

IdleTree ==
    /\ label = <<>>
    /\ parent = <<>>
    /\ children = <<>>
    /\ nodes = 0
    /\ iter = "none"
    /\ iterRoot = NoNode
    /\ pending = <<>>
    /\ yielded = <<>>
    /\ answer = NoAnswer

IdleImage ==
    /\ image = NoImage
    /\ reply = NoReply

Running == [status |-> "running", exc |-> NoExc, value |-> <<>>]

\* no top-level call made before the current one
NoCall == [status |-> "none", exc |-> NoExc, value |-> <<>>]

\* read_directory(path, escalation=...) on a directory of at most MaxFiles
\* entries, dtype left at its default
Init ==
    /\ entry = "read_directory"
    /\ fs \in {Dir(RootName, l) : l \in FlatListings}
    /\ escalation \in Escalation
    /\ dtype = DefaultDType
    /\ stack = <<ReadFrame(<<>>, dtype)>>
    /\ warnings = <<>>
    /\ nothings = <<>>
    /\ result = Running
    /\ earlier = NoCall
    /\ IdleTree
    /\ IdleImage

Next ==
    \/ ReturnEmpty
    \/ SkipNonFile
    \/ ReadSlice
    \/ ReadFault
    \/ BeginAssemble
    \/ AssembleSeries
    \/ ReturnImages

Spec == Init /\ [][Next]_vars

\* find_all_dicom_files(path, dtype, escalation) on a directory tree of at
\* most MaxTreeEntries entries
FindInit ==
    /\ entry = "find_all_dicom_files"
    /\ fs \in {Dir(RootName, l) : l \in TreeListings(MaxTreeEntries)}
    /\ escalation \in Escalation
    /\ dtype \in DTypes
    /\ stack = <<FindFrame(<<>>, dtype)>>
    /\ warnings = <<>>
    /\ nothings = <<>>
    /\ result = Running
    /\ earlier = NoCall
    /\ IdleTree
    /\ IdleImage

FindNext ==
    \/ Next
    \/ FindCallRead
    \/ FindSkipFile
    \/ FindRecurse
    \/ FindReturn

FindSpec == FindInit /\ [][FindNext]_vars

(***************************************************************************)
(* What the directory holds, read off the input alone.                     *)
(***************************************************************************)
\* a regular file that decodes and has the six required fields
Readable(e) ==
    /\ ~e.isdir
    /\ e.decodes
    /\ Required \subseteq e.attrs

\* a regular file that does not
Faulty(e) == ~e.isdir /\ ~Readable(e)

ReadableAt(entries) == {i \in 1..Len(entries) : Readable(entries[i])}

SeriesOf(e) == fix_siuid(e.SeriesInstanceUID)

SeriesKeys(entries) == {SeriesOf(entries[i]) : i \in ReadableAt(entries)}

SeriesFiles(entries, k) == {i \in ReadableAt(entries) : SeriesOf(entries[i]) = k}

CheckedFields == {"Columns", "Rows", "PixelSpacing", "SliceThickness", "Modality"}

\* the checked fields on which the files of series k disagree
Disagreements(entries, k) ==
    {c \in CheckedFields :
        \E a, b \in SeriesFiles(entries, k) : entries[a][c] # entries[b][c]}

ConsistentKeys(entries) ==
    {k \in SeriesKeys(entries) : Disagreements(entries, k) = {}}

AllLocated(entries) ==
    \A i \in ReadableAt(entries) : "SliceLocation" \in entries[i].attrs

\* the files of series k in ascending SliceLocation order, ties in listing order
InOrder(entries, k, seq) ==
    /\ Len(seq) = Cardinality(SeriesFiles(entries, k))
    /\ Range(seq) = SeriesFiles(entries, k)
    /\ \A a, b \in 1..Len(seq) :
          a < b =>
            \/ entries[seq[a]].SliceLocation < entries[seq[b]].SliceLocation
            \/ /\ entries[seq[a]].SliceLocation = entries[seq[b]].SliceLocation
               /\ seq[a] < seq[b]

IsImage(v) == "shape" \in DOMAIN v

Finished == result.status # "running"

Returned == result.status = "returned"

RaisedAs(type) == result.status = "raised" /\ result.exc.type = type

\* the warnings about listing entry i, and about series k
FileWarnings(i) ==
    {n \in 1..Len(warnings) :
        warnings[n].message.about = "file" /\ warnings[n].message.subject = i}

SeriesWarnings(k) ==
    {n \in 1..Len(warnings) :
        warnings[n].message.about = "series" /\ warnings[n].message.subject = k}

\* the slices a mapping holds: accumulated, or stored in a built image
HeldBy(v) == IF IsImage(v) THEN Range(v.data) ELSE Range(v.Slices)

SlicesIn(d) == UNION {HeldBy(d[n].val) : n \in 1..Len(d)}

\* the mapping of the running read_directory call, or the one it returned
Mapping == IF stack # <<>> THEN Top.images ELSE result.value

\* every file of a consistent series carries a pixel array that fits the
\* volume read_directory allocates for it
ConsistentSeriesFit(entries) ==
    \A i \in ReadableAt(entries) :
        SeriesOf(entries[i]) \in ConsistentKeys(entries)
            => entries[i].pixshape = <<entries[i].Columns, entries[i].Rows>>

OneInconsistentSeries(entries) ==
    Cardinality(SeriesKeys(entries) \ ConsistentKeys(entries)) = 1

WhatOf ==
    [Columns |-> "columns", Rows |-> "rows", PixelSpacing |-> "spacings",
     SliceThickness |-> "thicknesses", Modality |-> "modalities"]

(***************************************************************************)
(* C1. Under Warning or Nothing escalation, read_directory on a directory  *)
(* that holds one series whose files disagree on a checked field, together *)
(* with any number of consistent series, returns normally, and the mapping *)
(* returned holds exactly the consistent series, each as a Volume.         *)
(***************************************************************************)
C1_OneBadSeriesDoesNotAbort ==
    (/\ entry = "read_directory"
     /\ Finished
     /\ escalation \in {WARNING, NOTHING}
     /\ OneInconsistentSeries(fs.entries)
     /\ AllLocated(fs.entries)
     /\ ConsistentSeriesFit(fs.entries))
    => /\ Returned
       /\ Keys(result.value) = ConsistentKeys(fs.entries)
       /\ \A n \in 1..Len(result.value) : IsImage(result.value[n].val)

(***************************************************************************)
(* C2. Under Warning escalation a series whose files disagree on Rows is   *)
(* dropped from the mapping, and exactly one warning is recorded for each  *)
(* checked field the series is inconsistent in (and none for the others).  *)
(***************************************************************************)
C2_WarningOncePerInconsistentCategory ==
    (/\ entry = "read_directory"
     /\ Finished
     /\ escalation = WARNING
     /\ OneInconsistentSeries(fs.entries)
     /\ AllLocated(fs.entries)
     /\ ConsistentSeriesFit(fs.entries))
    => \A k \in SeriesKeys(fs.entries) :
          "Rows" \in Disagreements(fs.entries, k)
            => /\ k \notin Keys(result.value)
               /\ \A c \in CheckedFields :
                     Cardinality({n \in SeriesWarnings(k) :
                                     warnings[n].message.what = WhatOf[c]})
                       = IF c \in Disagreements(fs.entries, k) THEN 1 ELSE 0

(***************************************************************************)
(* C3. Under Warning escalation every regular file read so far that fails  *)
(* to decode or lacks a required field has produced exactly one warning    *)
(* and is a slice of no series; every other regular file read so far,      *)
(* whether listed before or after such a file, has produced no warning and *)
(* is a slice of its own series and of no other.  Once the call is over    *)
(* every listed file has been read.                                        *)
(***************************************************************************)
C3_FaultyFileWarnedOnceAndSkipped ==
    (entry = "read_directory" /\ escalation = WARNING)
    => LET files == fs.entries
           read == IF stack # <<>> THEN Top.i - 1 ELSE Len(files)
           held(k) == {n \in 1..Len(Mapping) : k \in HeldBy(Mapping[n].val)}
           scanning == stack # <<>> /\ (Top.phase = "read" \/ Top.j = 1)
       IN  \A k \in 1..read :
              /\ Faulty(files[k])
                   => /\ Cardinality(FileWarnings(k)) = 1
                      /\ \A n \in FileWarnings(k) :
                            /\ warnings[n].category = "UserWarning"
                            /\ warnings[n].postfix = " Ignoring."
                      /\ held(k) = {}
              /\ Readable(files[k])
                   => /\ FileWarnings(k) = {}
                      /\ (scanning \/ Returned)
                           => /\ Cardinality(held(k)) = 1
                              /\ \A n \in held(k) :
                                    Mapping[n].key = SeriesOf(files[k])

\* a faulty file between two files that read: one warning, both others kept
C3_Witness ==
    /\ entry = "read_directory"
    /\ escalation = WARNING
    /\ Returned
    /\ Len(fs.entries) = 3
    /\ Readable(fs.entries[1])
    /\ Faulty(fs.entries[2])
    /\ Readable(fs.entries[3])
    /\ Len(warnings) = 1
    /\ FileWarnings(2) = {1}
    /\ SlicesIn(result.value) = {1, 3}

\* some regular file below `dir`, at any depth, is faulty
RECURSIVE AnyFaulty(_)
AnyFaulty(dir) ==
    \E i \in 1..Len(dir.entries) :
        IF dir.entries[i].isdir
        THEN AnyFaulty(dir.entries[i])
        ELSE Faulty(dir.entries[i])

(***************************************************************************)
(* C4. Under Error escalation a file that fails to decode or lacks a       *)
(* required field, in the directory or in any subdirectory, makes          *)
(* find_all_dicom_files fail with InvalidDicomError, whatever the other    *)
(* files are.                                                              *)
(***************************************************************************)
C4_ErrorEscalationAborts ==
    (/\ entry = "find_all_dicom_files"
     /\ Finished
     /\ escalation = ERROR
     /\ AnyFaulty(fs))
    => RaisedAs("InvalidDicomError")

(***************************************************************************)
(* C5. Every Volume read_directory has built holds all the slices of its   *)
(* series, in ascending SliceLocation order along the depth axis, slices   *)
(* of equal SliceLocation in the order the files were listed.              *)
(***************************************************************************)
C5_SlicesInAscendingLocationOrder ==
    entry = "read_directory"
    => \A n \in 1..Len(Mapping) :
          IsImage(Mapping[n].val)
            => InOrder(fs.entries, Mapping[n].key, Mapping[n].val.data)

\* files listed at locations 30, 10, 20 end up in the order 10, 20, 30
C5_Witness ==
    /\ entry = "read_directory"
    /\ Returned
    /\ Len(fs.entries) = 3
    /\ \A i \in 1..3 : Readable(fs.entries[i])
    /\ <<fs.entries[1].SliceLocation, fs.entries[2].SliceLocation,
         fs.entries[3].SliceLocation>> = <<30, 10, 20>>
    /\ Len(result.value) = 1
    /\ result.value[1].val.data = <<2, 3, 1>>

(***************************************************************************)
(* C6. For a directory whose series are all consistent and whose files     *)
(* each carry a pixel array of shape (Rows, Columns), read_directory       *)
(* returns, for every series, a Volume of shape (Columns, Rows, slices)    *)
(* with spacing (pixel-spacing-x, pixel-spacing-y, slice-thickness), the   *)
(* normalized key as series_id and the group's modality, whose slot i      *)
(* holds the pixel data of sorted slice i.                                 *)
(***************************************************************************)
C6_VolumeMaterialized ==
    (/\ entry = "read_directory"
     /\ Finished
     /\ ConsistentKeys(fs.entries) = SeriesKeys(fs.entries)
     /\ AllLocated(fs.entries)
     /\ \A i \in ReadableAt(fs.entries) :
           fs.entries[i].pixshape = <<fs.entries[i].Rows, fs.entries[i].Columns>>
     /\ escalation = ERROR => \A i \in 1..Len(fs.entries) : ~Faulty(fs.entries[i]))
    => /\ Returned
       /\ Keys(result.value) = SeriesKeys(fs.entries)
       /\ \A n \in 1..Len(result.value) :
             LET k == result.value[n].key
                 img == result.value[n].val
                 f == fs.entries[CHOOSE i \in SeriesFiles(fs.entries, k) : TRUE]
             IN  /\ IsImage(img)
                 /\ img.shape = <<f.Columns, f.Rows,
                                  Cardinality(SeriesFiles(fs.entries, k))>>
                 /\ img.pixel_spacing = f.PixelSpacing \o <<f.SliceThickness>>
                 /\ img.series_id = k
                 /\ img.modality = f.Modality
                 /\ InOrder(fs.entries, k, img.data)

\* the keys find_all_dicom_files is to return for `dir`
RECURSIVE ExpectedKeys(_)
ExpectedKeys(dir) ==
    SeriesKeys(dir.entries)
    \cup UNION {{dir.entries[i].name \o <<"/">> \o k :
                    k \in ExpectedKeys(dir.entries[i])} :
                i \in {n \in 1..Len(dir.entries) : dir.entries[n].isdir}}

(***************************************************************************)
(* C7. The mapping find_all_dicom_files returns has one key per series     *)
(* found at any depth: the normalized UID for a series of the directory    *)
(* itself, and the subdirectory's name joined with "/" to the key of the   *)
(* subdirectory's own result for a series below it.                        *)
(***************************************************************************)
C7_KeysArePathQualified ==
    (entry = "find_all_dicom_files" /\ Returned)
    => /\ Keys(result.value) = ExpectedKeys(fs)
       /\ Len(result.value) = Cardinality(ExpectedKeys(fs))

\* subdirectories A and B with one distinct series each: two keys
C7_Witness ==
    /\ entry = "find_all_dicom_files"
    /\ Returned
    /\ Len(fs.entries) = 2
    /\ fs.entries[1].isdir /\ fs.entries[1].name = <<"A">>
    /\ fs.entries[2].isdir /\ fs.entries[2].name = <<"B">>
    /\ Len(result.value) = 2
    /\ Keys(result.value) = {<<"A", "/", "1", "_", "2", "_", "3">>,
                              <<"B", "/", "3">>}

(***************************************************************************)
(* C8. Every Volume of the mapping find_all_dicom_files(path, dtype=T)     *)
(* returns stores its samples with type T, the volumes of subdirectories   *)
(* included.                                                               *)
(***************************************************************************)
C8_VolumesHaveConfiguredDType ==
    (entry = "find_all_dicom_files" /\ Returned)
    => \A n \in 1..Len(result.value) : result.value[n].val.dtype = dtype

(***************************************************************************)
(* C9. A slice of a consistent series whose pixel array shape is not the   *)
(* (Columns, Rows) the series declares makes read_directory fail with      *)
(* InvalidDicomError under every escalation level.                         *)
(***************************************************************************)
C9_ShapeMismatchAlwaysFatal ==
    (/\ entry = "read_directory"
     /\ Finished
     /\ AllLocated(fs.entries)
     /\ \E i \in ReadableAt(fs.entries) :
           /\ SeriesOf(fs.entries[i]) \in ConsistentKeys(fs.entries)
           /\ fs.entries[i].pixshape # <<fs.entries[i].Columns, fs.entries[i].Rows>>)
    => RaisedAs("InvalidDicomError")

IdlePipeline ==
    /\ fs = EmptyDir(RootName)
    /\ entry = "none"
    /\ escalation = WARNING
    /\ dtype = DefaultDType
    /\ stack = <<>>
    /\ warnings = <<>>
    /\ nothings = <<>>
    /\ result = [status |-> "idle", exc |-> NoExc, value |-> <<>>]
    /\ earlier = NoCall

\* Trees as the constructor builds them, and the iterators over them.
\* No node yet, no iterator.
TreeInit ==
    /\ label = <<>>
    /\ parent = <<>>
    /\ children = <<>>
    /\ nodes = 0
    /\ iter = "none"
    /\ iterRoot = NoNode
    /\ pending = <<>>
    /\ yielded = <<>>
    /\ answer = NoAnswer
    /\ IdlePipeline
    /\ IdleImage

TreeNext ==
    \/ \E lbl \in Labels, value \in Nodes \cup {NoNode} : NewNode(lbl, value)
    \/ \E kind \in {"BFS", "DFS"}, node \in Nodes : StartIterator(kind, node)
    \/ BFSNext
    \/ DFSNext

TreeSpec == TreeInit /\ [][TreeNext]_vars

\* the nodes reached from those of S by following children
RECURSIVE Closure(_)
Closure(S) ==
    LET more == S \cup UNION {Range(children[p]) : p \in S}
    IN  IF more = S THEN S ELSE Closure(more)

Reach(r) == Closure({r})

\* how often node n is listed as a child of a node of S
TimesChild(n, S) == Cardinality({l \in Links : l[1] \in S /\ children[l[1]][l[2]] = n})

\* what r reaches is a tree rooted at r: r is nobody's child there, and every
\* other node is listed as a child exactly once
TreeFrom(r) ==
    /\ TimesChild(r, Reach(r)) = 0
    /\ \A n \in Reach(r) \ {r} : TimesChild(n, Reach(r)) = 1

(***************************************************************************)
(* C10. A BFSIterator and a DFSIterator started at the root of a tree of N *)
(* nodes yield nodes of the tree only, no node twice, never more than N,   *)
(* and have yielded every node exactly once when their queue or stack is   *)
(* empty, which is when they end.                                          *)
(***************************************************************************)
C10_EachNodeYieldedOnce ==
    (iter # "none" /\ TreeFrom(iterRoot))
    => /\ Range(yielded) \subseteq Reach(iterRoot)
       /\ Cardinality(Range(yielded)) = Len(yielded)
       /\ Range(pending) \cap Range(yielded) = {}
       /\ pending = <<>> => Range(yielded) = Reach(iterRoot)
       /\ pending # <<>> => Len(yielded) < Cardinality(Reach(iterRoot))

\* a depth-first traversal of a four-node tree has ended: 1, 2, 4, 3
C10_Witness ==
    /\ iter = "DFS"
    /\ iterRoot = 1
    /\ TreeFrom(1)
    /\ children[1] = <<2, 3>>
    /\ children[2] = <<4>>
    /\ pending = <<>>
    /\ yielded = <<1, 2, 4, 3>>

(***************************************************************************)
(* Node constructions and assignments to node.parent, in any order.  The   *)
(* values assigned are the ones the isinstance test of lines 98 and 83     *)
(* admits: None and the nodes there are.                                   *)
(***************************************************************************)
TreeEditNext ==
    \/ \E lbl \in Labels, value \in Nodes \cup {NoNode} : NewNode(lbl, value)
    \/ \E n \in Nodes, value \in Nodes \cup {NoNode} :
          /\ Cardinality(Links) < MaxLinks
          /\ SetParent(n, value)

TreeEditSpec == TreeInit /\ [][TreeEditNext]_vars

\* the node reached from n by following parent k times, None once past a root
RECURSIVE Up(_, _)
Up(n, k) == IF k = 0 \/ n = NoNode THEN n ELSE Up(parent[n], k - 1)

(***************************************************************************)
(* C11. After any sequence of Node constructions and assignments to a      *)
(* node's parent, the parent/child relation is acyclic (following parent   *)
(* from any node ends at None, and no node is among its own descendants),  *)
(* a node n is in p.children if and only if n.parent is p, and no node     *)
(* appears twice in a children sequence.                                   *)
(***************************************************************************)
C11_ParentChildConsistent ==
    /\ \A n \in Nodes : Up(n, nodes) = NoNode
    /\ \A n \in Nodes : n \notin Closure(Range(children[n]))
    /\ \A n, p \in Nodes : (n \in Range(children[p])) <=> (parent[n] = p)
    /\ \A p \in Nodes : Cardinality(Range(children[p])) = Len(children[p])

(***************************************************************************)
(* Trees as the constructor builds them, rendered once built.  A label     *)
(* is any string, the line separator included.                             *)
(***************************************************************************)
RenderNext ==
    \/ /\ answer = NoAnswer
       /\ \E lbl \in Labels \cup {LineSep}, value \in Nodes \cup {NoNode} :
             NewNode(lbl, value)
    \/ \E node \in Nodes, style \in Styles : Render(node, style)

RenderSpec == TreeInit /\ [][RenderNext]_vars

\* the lines of a text: what lies between its line separators
RECURSIVE SplitLines(_, _)
SplitLines(text, linesep) ==
    IF text = <<>> THEN <<<<>>>>
    ELSE LET rest == SplitLines(Tail(text), linesep)
         IN  IF Head(text) = linesep
             THEN <<<<>>>> \o rest
             ELSE <<<<Head(text)>> \o Head(rest)>> \o Tail(rest)

\* the nodes from r down to its descendant n
RECURSIVE PathTo(_, _)
PathTo(r, n) == IF n = r THEN <<n>> ELSE Append(PathTo(r, parent[n]), n)

IsLastChild(n) == Last(children[parent[n]]) = n

\* the line of node n in the rendering of the tree rooted at r
LineOf(r, n, style) ==
    IF n = r THEN <<label[n]>>
    ELSE LET path == PathTo(r, n)
         IN  [j \in 1..(Len(path) - 2) |->
                 IF IsLastChild(path[j + 1]) THEN style.blank ELSE style.vertical]
             \o <<IF IsLastChild(n) THEN style.end ELSE style.branch, label[n]>>

\* the lines are those of the nodes of the tree rooted at r, one each, the
\* root's first
OneLinePerNode(lines, r, style) ==
    /\ Len(lines) = Cardinality(Reach(r))
    /\ \E f \in [1..Len(lines) -> Reach(r)] :
          /\ f[1] = r
          /\ \A i, j \in 1..Len(lines) : f[i] = f[j] => i = j
          /\ \A i \in 1..Len(lines) : lines[i] = LineOf(r, f[i], style)

(***************************************************************************)
(* C12, as stated.  For every tree and glyph style, render returns exactly *)
(* one line per node of the tree rooted at the node: the first line is the *)
(* root's label alone, every other line is its node's label after one      *)
(* vertical or blank glyph per ancestor level and the branch glyph (the    *)
(* node is not its parent's last child) or the end glyph (it is).          *)
(***************************************************************************)
C12_RenderOneLinePerNode ==
    answer.op = "render"
    => OneLinePerNode(SplitLines(answer.value, LineSep), answer.node,
                      answer.style)

(***************************************************************************)
(* C12, amended.  The same, for every tree none of whose labels is or      *)
(* contains the line separator.                                            *)
(***************************************************************************)
C12_RenderOneLinePerNodeNoSeparator ==
    (/\ answer.op = "render"
     /\ \A n \in Reach(answer.node) : label[n] # LineSep)
    => OneLinePerNode(SplitLines(answer.value, LineSep), answer.node,
                      answer.style)

\* a four-node tree in the ASCII style: a branch, a vertical continuation and
\* two ends
C12_Witness ==
    /\ answer.op = "render"
    /\ answer.node = 1
    /\ answer.style = TreePrintStyleASCII
    /\ children[1] = <<2, 3>>
    /\ children[2] = <<4>>
    /\ label = <<"a", "b", "a", "b">>
    /\ answer.value = <<"a", "\n", "|-- ", "b", "\n", "|   ", "+-- ", "b", "\n",
                        "+-- ", "a">>

(***************************************************************************)
(* Trees as the constructor builds them, searched once when built.  A      *)
(* filter is the set of nodes it accepts, whatever it looks at, so one     *)
(* label is enough.                                                        *)
(***************************************************************************)
SearchNext ==
    \/ /\ answer = NoAnswer
       /\ \E value \in Nodes \cup {NoNode} : NewNode("a", value)
    \/ /\ answer = NoAnswer
       /\ \E node \in Nodes, filter_ \in SUBSET Nodes, kind \in {"BFS", "DFS"} :
             FindAll(node, filter_, kind)
    \/ /\ answer = NoAnswer
       /\ \E node \in Nodes, filter_ \in SUBSET Nodes, kind \in {"BFS", "DFS"} :
             FindFirst(node, filter_, kind)

SearchSpec == TreeInit /\ [][SearchNext]_vars

\* the nodes in the order the iterator yields them: its loop run to the end
RECURSIVE Traversal(_, _)
Traversal(kind, pend) ==
    IF pend = <<>> THEN <<>>
    ELSE <<Popped(kind, pend)>> \o Traversal(kind, Expanded(kind, pend))

\* the nodes of seq that S holds, in the order of seq
Matching(seq, S) == LET Holds(n) == n \in S IN SelectSeq(seq, Holds)

(***************************************************************************)
(* C13. For every tree, filter and traversal: find_all returns the nodes   *)
(* the filter accepts, in the order the traversal yields them, and the     *)
(* empty sequence when it accepts none; find_first returns the first       *)
(* element of that find_all result when it is not empty, and raises        *)
(* NotFoundError exactly when it is.                                       *)
(***************************************************************************)
C13_FindAllAndFindFirst ==
    /\ answer.op = "find_all"
         => /\ answer.status = "returned"
            /\ answer.value = Matching(Traversal(answer.iterator, <<answer.node>>),
                                       answer.filter)
            /\ (answer.filter \cap Reach(answer.node) = {}) <=> (answer.value = <<>>)
    /\ answer.op = "find_first"
         => LET all == find_all(answer.node, answer.filter, answer.iterator)
            IN  /\ all # <<>> => /\ answer.status = "returned"
                                 /\ answer.value = Head(all)
                /\ all = <<>> => /\ answer.status = "raised"
                                 /\ answer.exc = "NotFoundError"

\* depth-first, node 4 comes before node 3: find_first returns 4
C13_Witness ==
    /\ answer.op = "find_first"
    /\ answer.node = 1
    /\ answer.iterator = "DFS"
    /\ answer.filter = {3, 4}
    /\ children[1] = <<2, 3>>
    /\ children[2] = <<4>>
    /\ answer.status = "returned"
    /\ answer.value = 4

(***************************************************************************)
(* errors.py: calls of escalate, one after the other, with every level     *)
(* (an unrecognised one included) and a choice of the other arguments.     *)
(* The `nothing` action of a call is identified by the call's message.     *)
(***************************************************************************)
Levels == Escalation \cup {"CRITICAL"}

EscalateFrame(level, message, error_postfix, warn_postfix, error, warning) ==
    [fn |-> "escalate", level |-> level, message |-> message,
     error_postfix |-> error_postfix, warn_postfix |-> warn_postfix,
     error |-> error, warning |-> warning]

\* escalate(level, message, ...) is called
EscalateCall ==
    /\ stack = <<>>
    /\ Len(warnings) + Len(nothings) < MaxCalls
    /\ \E level \in Levels, message \in {"m1", "m2"},
          error_postfix \in {"", "!"}, warn_postfix \in {"", " Ignoring."},
          error \in {"RuntimeError", "InvalidDicomError"},
          warning \in {"UserWarning", "RuntimeWarning"} :
          /\ stack' = <<EscalateFrame(level, message, error_postfix,
                                      warn_postfix, error, warning)>>
          /\ escalation' = level
    /\ entry' = "escalate"
    /\ result' = Running
    /\ UNCHANGED <<fs, dtype, warnings, nothings>>
    /\ UNCHANGED earlier
    /\ UNCHANGED treeVars
    /\ UNCHANGED imageVars

\* the body of escalate, lines 53-61
EscalateRun ==
    /\ stack # <<>>
    /\ entry = "escalate"
    /\ LET r == escalate(Top.level, Top.message, Top.error_postfix,
                         Top.warn_postfix, Top.error, Top.warning)
       IN  /\ warnings' = warnings \o r.warned
           /\ nothings' = nothings \o r.nothing
           /\ result' = IF r.exc.type = "none"
                        THEN [status |-> "returned", exc |-> NoExc, value |-> None]
                        ELSE [status |-> "raised", exc |-> r.exc, value |-> None]
    /\ stack' = <<>>
    /\ UNCHANGED <<fs, entry, escalation, dtype>>
    /\ UNCHANGED earlier
    /\ UNCHANGED treeVars
    /\ UNCHANGED imageVars

EscalateInit == IdlePipeline /\ IdleTree /\ IdleImage

EscalateNext == EscalateCall \/ EscalateRun

EscalateSpec == EscalateInit /\ [][EscalateNext]_vars

(***************************************************************************)
(* C14. A call of escalate does exactly one thing.  On ERROR it raises     *)
(* `error` with message + error_postfix, warns nothing and does not call   *)
(* `nothing`; on WARNING it emits one warning of category `warning` with   *)
(* message + warn_postfix and returns; on NOTHING it calls `nothing` once, *)
(* warns nothing and returns; on any other level it raises ValueError.     *)
(***************************************************************************)
C14_EscalateDoesOneThing ==
    [][(stack # <<>> /\ entry = "escalate" /\ stack' = <<>>)
        => LET a == Top
           IN  /\ a.level = ERROR
                    => /\ result'.status = "raised"
                       /\ result'.exc = [type |-> a.error, message |-> a.message,
                                         postfix |-> a.error_postfix]
                       /\ warnings' = warnings
                       /\ nothings' = nothings
               /\ a.level = WARNING
                    => /\ result'.status = "returned"
                       /\ warnings' = Append(warnings,
                                             [category |-> a.warning,
                                              message |-> a.message,
                                              postfix |-> a.warn_postfix])
                       /\ nothings' = nothings
               /\ a.level = NOTHING
                    => /\ result'.status = "returned"
                       /\ warnings' = warnings
                       /\ nothings' = Append(nothings, a.message)
               /\ a.level \notin Escalation
                    => /\ result'.status = "raised"
                       /\ result'.exc.type = "ValueError"
                       /\ warnings' = warnings
                       /\ nothings' = nothings]_vars

\* a warning, then an error: one warning emitted, RuntimeError raised
C14_Witness ==
    /\ entry = "escalate"
    /\ stack = <<>>
    /\ escalation = ERROR
    /\ result.status = "raised"
    /\ result.exc = [type |-> "RuntimeError", message |-> "m2", postfix |-> "!"]
    /\ warnings = <<[category |-> "UserWarning", message |-> "m1",
                     postfix |-> " Ignoring."]>>
    /\ nothings = <<>>

(***************************************************************************)
(* image.py: one Image, constructed and then used through its pixel        *)
(* spacing, its aspect ratios and its slices.                              *)
(***************************************************************************)
Shapes == {<<2>>, <<2, 3>>, <<1, 2, 3>>, <<1, 1, 1, 1>>}

Spacings == {None, <<3>>, <<1, 2>>, <<1, 2, 4>>, <<2, 2, 1>>, <<1, 1, 1, 1>>}

\* the arrays handed to set_slice: their shape, and the slice they hold
SliceArrays ==
    {[shape |-> <<1, 2>>, content |-> c] : c \in {1, 2}}
    \cup {[shape |-> <<2, 1>>, content |-> 1], [shape |-> <<2>>, content |-> 1]}

Indices == -1..MaxIndex

Planes == ImagePlanes \cup {NoPlane, "OBLIQUE"}

ImageReply(op, args, r) ==
    [op |-> op, args |-> args, status |-> r.status, exc |-> r.exc,
     value |-> r.value]

\* Image(name, shape, pixel_spacing), lines 33-50: no object when the pixel
\* spacing setter raises
Construct(shape, pixel_spacing) ==
    /\ image = NoImage
    /\ LET r == set_aspect_ratios(Len(shape), pixel_spacing)
           fails == pixel_spacing # None /\ r.exc # "none"
       IN  /\ image' = IF fails THEN NoImage
                       ELSE NewImage(<<"V">>, shape, pixel_spacing, None, None,
                                     DefaultDType)
           /\ reply' = ImageReply("Image",
                                  [shape |-> shape, pixel_spacing |-> pixel_spacing],
                                  IF fails THEN Raises(r.exc)
                                  ELSE Returns("none", None))
    /\ UNCHANGED pipeVars
    /\ UNCHANGED treeVars

\* image.pixel_spacing = value
SetPixelSpacing(value) ==
    /\ image # NoImage
    /\ LET r == set_pixel_spacing(image, value)
       IN  /\ image' = r.img
           /\ reply' = ImageReply("pixel_spacing", [value |-> value],
                                  IF r.exc = "none" THEN Returns("none", None)
                                  ELSE Raises(r.exc))
    /\ UNCHANGED pipeVars
    /\ UNCHANGED treeVars

\* image.aspect_ratios(image_plane)
AspectRatios(image_plane) ==
    /\ image # NoImage
    /\ image' = image
    /\ reply' = ImageReply("aspect_ratios", [image_plane |-> image_plane],
                           aspect_ratios(image, image_plane))
    /\ UNCHANGED pipeVars
    /\ UNCHANGED treeVars

\* image.set_slice(index, data)
SetSlice(index, data) ==
    /\ image # NoImage
    /\ image' = set_slice(image, index, data.shape, data.content)
    /\ reply' = ImageReply("set_slice", [index |-> index, data |-> data],
                           set_slice_returns(image, index, data.shape))
    /\ UNCHANGED pipeVars
    /\ UNCHANGED treeVars

\* image.get_slice(index, image_plane)
GetSlice(index, image_plane) ==
    /\ image # NoImage
    /\ image' = image
    /\ reply' = ImageReply("get_slice",
                           [index |-> index, image_plane |-> image_plane],
                           get_slice(image, index, image_plane))
    /\ UNCHANGED pipeVars
    /\ UNCHANGED treeVars

ImageInit == IdlePipeline /\ IdleTree /\ IdleImage

ImageNext ==
    \/ \E shape \in Shapes, pixel_spacing \in Spacings : Construct(shape, pixel_spacing)
    \/ \E value \in Spacings : SetPixelSpacing(value)
    \/ \E image_plane \in Planes : AspectRatios(image_plane)
    \/ \E index \in Indices, data \in SliceArrays : SetSlice(index, data)
    \/ \E index \in Indices, image_plane \in Planes : GetSlice(index, image_plane)

ImageSpec == ImageInit /\ [][ImageNext]_vars

(***************************************************************************)
(* C15. For a 3D Image with pixel spacing (s0, s1, s2), aspect_ratios()    *)
(* returns (s1/s0, s1/s2, s2/s0) and aspect_ratios(plane) its axial,       *)
(* sagittal or coronal component; for a 2D Image it is s1/s0; an unknown   *)
(* plane on a 3D Image, and an Image of more than 3 dimensions, raise      *)
(* ValueError.                                                             *)
(***************************************************************************)
C15_AspectRatios ==
    reply.op = "aspect_ratios"
    => LET s == image.pixel_spacing
           ndim == Len(image.shape)
           plane == reply.args.image_plane
           triple == <<Ratio(s[2], s[1]), Ratio(s[2], s[3]), Ratio(s[3], s[1])>>
       IN  /\ (ndim = 3 /\ Len(s) = 3 /\ plane \in ImagePlanes \cup {NoPlane})
                => /\ reply.status = "returned"
                   /\ reply.value.is =
                        IF plane = NoPlane THEN triple
                        ELSE IF plane = AXIAL THEN triple[1]
                        ELSE IF plane = SAGITTAL THEN triple[2]
                        ELSE triple[3]
           /\ (ndim = 2 /\ Len(s) = 2)
                => /\ reply.status = "returned"
                   /\ reply.value.is = Ratio(s[2], s[1])
           /\ (ndim = 3 /\ plane \notin ImagePlanes \cup {NoPlane})
                => /\ reply.status = "raised"
                   /\ reply.exc = "ValueError"
           /\ ndim > 3
                => /\ reply.status = "raised"
                   /\ reply.exc = "ValueError"

\* spacing (1, 2, 4): the sagittal aspect ratio is 1/2
C15_Witness ==
    /\ reply.op = "aspect_ratios"
    /\ image.shape = <<1, 2, 3>>
    /\ image.pixel_spacing = <<1, 2, 4>>
    /\ image.aspect_ratios = <<<<2, 1>>, <<1, 2>>, <<4, 1>>>>
    /\ reply.args.image_plane = SAGITTAL
    /\ reply.status = "returned"
    /\ reply.value.is = <<1, 2>>

(***************************************************************************)
(* C16. set_slice(index, data) on a 3D Image changes at most position      *)
(* index of the last axis.  When data's shape is the Image's first two     *)
(* dimensions and 0 <= index < depth, that position becomes data and every *)
(* other one is unchanged; otherwise the storage is unchanged and the call *)
(* returns (does not raise) a RuntimeError or IndexError object.           *)
(***************************************************************************)
C16_SetSliceWritesOnePosition ==
    [][(reply'.op = "set_slice" /\ image # NoImage /\ Len(image.shape) = 3)
        => LET index == reply'.args.index
               data == reply'.args.data
               fits == data.shape = <<image.shape[1], image.shape[2]>>
               inrange == 0 <= index /\ index < image.shape[3]
           IN  /\ image' = [image EXCEPT !.data = image'.data]
               /\ reply'.status = "returned"
               /\ (fits /\ inrange)
                    => /\ image'.data = [image.data EXCEPT ![index + 1] = data.content]
                       /\ reply'.value.kind = "none"
               /\ ~(fits /\ inrange)
                    => /\ image'.data = image.data
                       /\ reply'.value.kind = "error"
                       /\ reply'.value.is \in {"RuntimeError", "IndexError"}]_vars

\* slice 2 written at index 1 of an empty volume of depth 3
C16_Witness ==
    /\ reply.op = "set_slice"
    /\ reply.args.index = 1
    /\ reply.args.data = [shape |-> <<1, 2>>, content |-> 2]
    /\ reply.value.kind = "none"
    /\ image.shape = <<1, 2, 3>>
    /\ image.data = <<0, 2, 0>>

(***************************************************************************)
(* C17. On a 3D Image of shape (w, h, d), get_slice(index, plane) returns  *)
(* data[:, :, index] for AXIAL when 0 <= index < d, data[:, index, :] for  *)
(* SAGITTAL when 0 <= index < h and data[index, :, :] for CORONAL when     *)
(* 0 <= index < w; for an index outside the plane's range it returns an    *)
(* IndexError object; for an unknown or absent plane it raises ValueError. *)
(***************************************************************************)
C17_GetSliceCrossSections ==
    (reply.op = "get_slice" /\ Len(image.shape) = 3)
    => LET w == image.shape[1]
           h == image.shape[2]
           d == image.shape[3]
           k == reply.args.index
           plane == reply.args.image_plane
           got == reply.value.is
           range == IF plane = AXIAL THEN d ELSE IF plane = SAGITTAL THEN h ELSE w
           IsArray(rows, cols) ==
               /\ reply.status = "returned"
               /\ reply.value.kind = "array"
               /\ Len(got) = rows
               /\ \A i \in 1..rows : Len(got[i]) = cols
       IN  /\ (plane = AXIAL /\ 0 <= k /\ k < d)
                => /\ IsArray(w, h)
                   /\ \A x \in 1..w, y \in 1..h : got[x][y] = Voxel(image, x, y, k + 1)
           /\ (plane = SAGITTAL /\ 0 <= k /\ k < h)
                => /\ IsArray(w, d)
                   /\ \A x \in 1..w, z \in 1..d : got[x][z] = Voxel(image, x, k + 1, z)
           /\ (plane = CORONAL /\ 0 <= k /\ k < w)
                => /\ IsArray(h, d)
                   /\ \A y \in 1..h, z \in 1..d : got[y][z] = Voxel(image, k + 1, y, z)
           /\ (plane \in ImagePlanes /\ (k < 0 \/ k >= range))
                => /\ reply.status = "returned"
                   /\ reply.value.kind = "error"
                   /\ reply.value.is = "IndexError"
           /\ plane \notin ImagePlanes
                => /\ reply.status = "raised"
                   /\ reply.exc = "ValueError"

\* the sagittal cut at index 1 of a volume holding slices 1 and 2 and a zero
\* slice: one row along the depth axis
C17_Witness ==
    /\ reply.op = "get_slice"
    /\ image.shape = <<1, 2, 3>>
    /\ image.data = <<1, 2, 0>>
    /\ reply.args = [index |-> 1, image_plane |-> SAGITTAL]
    /\ reply.status = "returned"
    /\ reply.value.kind = "array"
    /\ reply.value.is = <<<<12, 24, 0>>>>

\* the aspect ratios _set_aspect_ratios derives from the pixel spacing
DerivedRatios(img) ==
    IF img.pixel_spacing = None THEN None
    ELSE set_aspect_ratios(Len(img.shape), img.pixel_spacing).value

(***************************************************************************)
(* C18. In every state of an Image, after its construction and after any   *)
(* sequence of pixel_spacing assignments, the rejected ones included,      *)
(* pixel_spacing is None or has one entry per dimension, the stored aspect *)
(* ratios are the ones derived from the current pixel_spacing, and the     *)
(* shape is the one the Image was constructed with.                        *)
(***************************************************************************)
C18_SpacingMatchesDimensions ==
    [][image' # NoImage
        => /\ \/ image'.pixel_spacing = None
              \/ Len(image'.pixel_spacing) = Len(image'.shape)
           /\ image'.aspect_ratios = DerivedRatios(image')
           /\ reply'.op = "Image" => image'.shape = reply'.args.shape
           /\ image # NoImage => image'.shape = image.shape]_vars

(***************************************************************************)
(* find_all_dicom_files called a second time on the same directory with    *)
(* the same arguments, in the process the first call has left: the         *)
(* warnings and the calls of `nothing` made so far stay on record.         *)
(***************************************************************************)
CallAgain ==
    /\ entry = "find_all_dicom_files"
    /\ stack = <<>>
    /\ result.status \in {"returned", "raised"}
    /\ earlier = NoCall
    /\ earlier' = result
    /\ result' = Running
    /\ stack' = <<FindFrame(<<>>, dtype)>>
    /\ UNCHANGED <<fs, entry, escalation, dtype, warnings, nothings>>
    /\ UNCHANGED treeVars
    /\ UNCHANGED imageVars

RepeatNext == FindNext \/ CallAgain

RepeatSpec == FindInit /\ [][RepeatNext]_vars

\* what a Volume is made of
Make(img) ==
    [shape |-> img.shape, pixel_spacing |-> img.pixel_spacing,
     series_id |-> img.series_id, modality |-> img.modality, data |-> img.data,
     dtype |-> img.dtype]

Normalized(uid) == [i \in 1..Len(uid) |-> IF uid[i] = "/" THEN "_" ELSE uid[i]]

(***************************************************************************)
(* C20. Series identity is the normalized UID.  No key of read_directory's *)
(* result contains "/"; two successfully read files are slices of the same *)
(* series if and only if their UIDs are equal once every "/" is replaced   *)
(* by "_"; and the Volume of a series has as many slices as there are      *)
(* successfully read files with its normalized UID.                        *)
(***************************************************************************)
C20_SeriesIdentityIsNormalizedUID ==
    (entry = "read_directory" /\ Returned)
    => LET files == fs.entries
           at(i) == {n \in 1..Len(result.value) : i \in HeldBy(result.value[n].val)}
       IN  /\ \A n \in 1..Len(result.value) : "/" \notin Range(result.value[n].key)
           /\ \A i \in ReadableAt(files) : Cardinality(at(i)) = 1
           /\ \A i, j \in ReadableAt(files) :
                 (at(i) = at(j))
                   <=> (Normalized(files[i].SeriesInstanceUID)
                          = Normalized(files[j].SeriesInstanceUID))
           /\ \A n \in 1..Len(result.value) :
                 LET img == result.value[n].val
                     same == {i \in ReadableAt(files) :
                                 Normalized(files[i].SeriesInstanceUID)
                                   = result.value[n].key}
                 IN  /\ IsImage(img)
                     /\ Last(img.shape) = Cardinality(same)
                     /\ Len(img.data) = Cardinality(same)

\* files with UIDs 1/2/3 and 1_2_3 form one series of two slices, next to a
\* second series
C20_Witness ==
    /\ entry = "read_directory"
    /\ Returned
    /\ Len(fs.entries) = 3
    /\ \A i \in 1..3 : Readable(fs.entries[i])
    /\ fs.entries[1].SeriesInstanceUID = UidSlash
    /\ fs.entries[2].SeriesInstanceUID = UidOther
    /\ fs.entries[3].SeriesInstanceUID = UidUnder
    /\ Keys(result.value) = {UidUnder, UidOther}
    /\ Len(Get(result.value, UidUnder).data) = 2

\* the depth of node n below r, counted along the children lists from the
\* level S of depth d; n is reached from r
RECURSIVE DepthFromLevel(_, _, _)
DepthFromLevel(S, d, n) ==
    IF n \in S THEN d
    ELSE DepthFromLevel(UNION {Range(children[p]) : p \in S}, d + 1, n)

Depth(r, n) == DepthFromLevel({r}, 0, n)

\* the node of Reach(r) that lists n as a child, and the place of n there
ParentIn(r, n) == CHOOSE p \in Reach(r) : n \in Range(children[p])

PlaceIn(seq, n) == CHOOSE i \in 1..Len(seq) : seq[i] = n

RenderWalkNext ==
    \/ /\ answer = NoAnswer
       /\ \E lbl \in Labels \cup {LineSep}, value \in Nodes \cup {NoNode} :
             NewNode(lbl, value)
    \/ /\ answer = NoAnswer
       /\ \E node \in Nodes, style \in Styles : Render(node, style)
    \/ /\ answer # NoAnswer
       /\ \E node \in Nodes : StartIterator("DFS", node)
    \/ DFSNext

RenderWalkSpec == TreeInit /\ [][RenderWalkNext]_vars

\* the nodes yielded so far are those of the first lines, in order, and when
\* the iterator has ended there is no line left over
LinesFollowWalk(lines, r, style) ==
    /\ Len(yielded) <= Len(lines)
    /\ \A i \in 1..Len(yielded) :
          /\ lines[i] # <<>>
          /\ Last(lines[i]) = label[yielded[i]]
          /\ lines[i] = LineOf(r, yielded[i], style)
    /\ pending = <<>> => Len(lines) = Len(yielded)

(***************************************************************************)
(* C22, as stated.  For every tree, the i-th node yielded by DFSIterator   *)
(* from the root is the node whose label ends the i-th line of             *)
(* root.render(): the line is that node's line, and there are as many      *)
(* lines as nodes yielded.                                                 *)
(***************************************************************************)
C22_DepthFirstOrderIsRenderOrder ==
    (answer.op = "render" /\ iter = "DFS" /\ iterRoot = answer.node)
    => LinesFollowWalk(SplitLines(answer.value, LineSep), answer.node,
                       answer.style)

(***************************************************************************)
(* C22, amended.  The same, for every tree none of whose labels is or      *)
(* contains the line separator.                                            *)
(***************************************************************************)
C22_DepthFirstOrderIsRenderOrderNoSeparator ==
    (/\ answer.op = "render" /\ iter = "DFS" /\ iterRoot = answer.node
     /\ \A n \in Reach(answer.node) : label[n] # LineSep)
    => LinesFollowWalk(SplitLines(answer.value, LineSep), answer.node,
                       answer.style)

\* a four-node tree rendered and walked to the end: the lines are those of
\* 1, 2, 4, 3, where breadth-first order would be 1, 2, 3, 4
C22_Witness ==
    /\ answer.op = "render"
    /\ answer.node = 1
    /\ iter = "DFS"
    /\ iterRoot = 1
    /\ children[1] = <<2, 3>>
    /\ children[2] = <<4>>
    /\ label = <<"a", "b", "a", "b">>
    /\ pending = <<>>
    /\ yielded = <<1, 2, 4, 3>>
    /\ Len(SplitLines(answer.value, LineSep)) = 4

(***************************************************************************)
(* find_all_dicom_files(path, escalation) on a directory tree of at most   *)
(* MaxTreeEntries entries some of whose files have an empty                *)
(* SeriesInstanceUID, or one that reads like a subdirectory's name.        *)
(***************************************************************************)
NamesakeInit ==
    /\ entry = "find_all_dicom_files"
    /\ fs \in {Dir(RootName, l) : l \in ListingsOf(NamesakeFiles, MaxTreeEntries)}
    /\ escalation \in Escalation
    /\ dtype = DefaultDType
    /\ stack = <<FindFrame(<<>>, dtype)>>
    /\ warnings = <<>>
    /\ nothings = <<>>
    /\ result = Running
    /\ earlier = NoCall
    /\ IdleTree
    /\ IdleImage

NamesakeSpec == NamesakeInit /\ [][FindNext]_vars

\* seq begins with the elements of pre
StartsWith(seq, pre) ==
    Len(pre) <= Len(seq) /\ SubSeq(seq, 1, Len(pre)) = pre

(***************************************************************************)
(* C23. In find_all_dicom_files the merge of a subdirectory's result never *)
(* overwrites an existing entry: when a subdirectory's call returns, the   *)
(* keys the directory has so far are those of its own series (no "/") and  *)
(* of earlier subdirectories, every merged key starts with the             *)
(* subdirectory's name followed by "/", the entries there were are kept,   *)
(* and the mapping grows by the number of keys of the subdirectory's       *)
(* result.                                                                 *)
(***************************************************************************)
C23_MergeNeverOverwrites ==
    [][(/\ Len(stack) >= 2
        /\ InFind("loop")
        /\ Top.idx > Len(TopDir.entries)
        /\ Len(stack') = Len(stack) - 1)
       => LET caller == stack[Len(stack) - 1]
              name == DirAt(fs, caller.path).entries[caller.idx].name
              sub == Top.dicoms
              before == caller.dicoms
              after == Last(stack').dicoms
          IN  /\ Len(after) = Len(before) + Len(sub)
              /\ \A n \in 1..Len(before) : after[n] = before[n]
              /\ \A n \in (Len(before) + 1)..Len(after) :
                    StartsWith(after[n].key, name \o <<"/">>)
              /\ \A k \in SeriesKeys(DirAt(fs, caller.path).entries) :
                    "/" \notin Range(k)]_vars

\* the series none of whose files lacks a SliceLocation
LocatedKeys(entries) ==
    {k \in SeriesKeys(entries) :
        \A i \in SeriesFiles(entries, k) : "SliceLocation" \in entries[i].attrs}

(***************************************************************************)
(* C24. A file that decodes and has all six required fields but no         *)
(* SliceLocation is a fault local to its scope: under Warning or Nothing   *)
(* escalation read_directory on a directory with such a file, and with     *)
(* nothing else amiss in any series, returns normally, and the mapping     *)
(* returned holds every series that does not contain such a file, as a     *)
(* Volume.                                                                 *)
(***************************************************************************)
C24_MissingSliceLocationIsLocal ==
    (/\ entry = "read_directory"
     /\ Finished
     /\ escalation \in {WARNING, NOTHING}
     /\ ~AllLocated(fs.entries)
     /\ ConsistentKeys(fs.entries) = SeriesKeys(fs.entries)
     /\ ConsistentSeriesFit(fs.entries))
    => /\ Returned
       /\ \A k \in LocatedKeys(fs.entries) :
             /\ k \in Keys(result.value)
             /\ IsImage(Get(result.value, k))

====
